---- MODULE Spec2Model ----
(***************************************************************************)
(* Model of handlers/data_ingestion_processor/section_processor.py:        *)
(* DottedSection (identifier comparison, tree relations, search, lineage)  *)
(* and SectionedDocumentParser (extract, validate, sort, build tree,       *)
(* assign content, split).                                                 *)
(*                                                                         *)
(* A Python str is a sequence of tokens.  A token stands for one character *)
(* (a digit, ".", a blank, a line break) or for one run of characters that *)
(* the code never looks inside (a word).  The code's string operations     *)
(* (find, slicing, split on line breaks, split on white space, replace,    *)
(* the regular expressions) are computed on these sequences.               *)
(***************************************************************************)
EXTENDS Integers, Sequences, FiniteSets, TLC

VARIABLES
    pc,                 \* position in split / enrich_section_chunks / build_section_tree
    max_chunk_length,   \* SectionedDocumentParser.max_chunk_length
    text,               \* the document passed to split
    section_titles,     \* enrich_section_chunks: section_titles
    valid_titles,       \* enrich_section_chunks: valid_titles
    sorted_titles,      \* enrich_section_chunks: sorted_titles
    nodes,              \* the DottedSection objects built so far, node n for sorted_titles[n]
    current_section,    \* build_section_tree: current_section (a node index)
    discarded,          \* node indices logged as "Discarding section"
    k,                  \* index of the running loop
    chunks,             \* enrich_section_chunks: chunks
    valid_chunks,       \* split: valid_chunks
    origin,             \* for each element of valid_chunks, the index in chunks it was made from
    err,                \* the exception that ended the call, "" when none
    result,             \* what split returned: <<>> nothing, <<list>> the returned list
    cmp                 \* the two titles last compared, and the outcomes

vars == <<pc, max_chunk_length, text, section_titles, valid_titles, sorted_titles,
          nodes, current_section, discarded, k, chunks, valid_chunks, origin,
          err, result, cmp>>

(***************************************************************************)
(* Characters and words                                                    *)
(***************************************************************************)
SP == " "
NL == "\n"
DOT == "."
Whitespace == {SP, NL}
DigitChars == <<"0", "1", "2", "3", "4", "5", "6", "7", "8", "9">>
IsDigit(c) == \E d \in 1..10 : DigitChars[d] = c
DigitVal(c) == (CHOOSE d \in 1..10 : DigitChars[d] = c) - 1

\* words of the documents: capitalised, all capitals, stopword, lower case
CapWords == {"Aa", "Bb"}
UpperWords == {"AA"}
StopWords == {"of"}
BodyWords == {"x"}

Min(a, b) == IF a < b THEN a ELSE b

\* s[a:b] of Python for 0 <= a, 0 <= b
Slice(s, a, b) == SubSeq(s, a + 1, Min(b, Len(s)))
\* s[:n]
Take(s, n) == SubSeq(s, 1, Min(n, Len(s)))
\* s[:-1]
Front(s) == SubSeq(s, 1, Len(s) - 1)
Last(s) == s[Len(s)]

\* whether t occurs in s at 1-based position p
OccursAt(s, t, p) == p + Len(t) - 1 <= Len(s) /\ SubSeq(s, p, p + Len(t) - 1) = t

\* str.find: 0-based index of the first occurrence of t in s, -1 when there is none
Find(s, t) ==
    IF \E p \in 1..(Len(s) + 1) : OccursAt(s, t, p)
    THEN (CHOOSE p \in 1..(Len(s) + 1) :
              OccursAt(s, t, p) /\ \A q \in 1..(p - 1) : ~OccursAt(s, t, q)) - 1
    ELSE -1

RECURSIVE SplitFrom(_, _, _)
SplitFrom(s, p, cur) ==
    IF p > Len(s) THEN <<cur>>
    ELSE IF s[p] = NL THEN <<cur>> \o SplitFrom(s, p + 1, <<>>)
    ELSE SplitFrom(s, p + 1, Append(cur, s[p]))

\* str.split("\n")
SplitLines(s) == SplitFrom(s, 1, <<>>)

\* len(text.split()): the number of maximal runs of non-blank characters
word_count(s) ==
    Cardinality({p \in 1..Len(s) :
        s[p] \notin Whitespace /\ (p = 1 \/ s[p - 1] \in Whitespace)})

RECURSIVE Flatten(_)
Flatten(ss) == IF ss = <<>> THEN <<>> ELSE Head(ss) \o Flatten(Tail(ss))

RECURSIVE JoinWith(_, _)
\* sep.join(ss)
JoinWith(ss, sep) ==
    IF ss = <<>> THEN <<>>
    ELSE IF Len(ss) = 1 THEN ss[1]
    ELSE ss[1] \o sep \o JoinWith(Tail(ss), sep)

RECURSIVE Replace(_, _, _)
\* str.replace(old, new): every occurrence, left to right
Replace(s, old, new) ==
    IF s = <<>> THEN <<>>
    ELSE IF OccursAt(s, old, 1) THEN new \o Replace(SubSeq(s, Len(old) + 1, Len(s)), old, new)
    ELSE <<Head(s)>> \o Replace(Tail(s), old, new)

RECURSIVE NumStr(_)
\* str(n) for n >= 0
NumStr(n) == IF n < 10 THEN DigitChars[n + 1] ELSE NumStr(n \div 10) \o DigitChars[(n % 10) + 1]

(***************************************************************************)
(* DottedSection: the identifier and its comparisons                       *)
(***************************************************************************)
RECURSIVE DigitsEnd(_, _)
\* first position from p on that holds no digit
DigitsEnd(s, p) == IF p <= Len(s) /\ IsDigit(s[p]) THEN DigitsEnd(s, p + 1) ELSE p

RECURSIVE NumberingEnd(_, _)
\* numbering_regex \d+(\.\d+)* matched from the digit at p: the position after the match
NumberingEnd(s, p) ==
    LET j == DigitsEnd(s, p)
    IN IF j + 1 <= Len(s) /\ s[j] = DOT /\ IsDigit(s[j + 1])
       THEN NumberingEnd(s, j + 1)
       ELSE j

\* DottedSection.number: re.match(numbering_regex, title).group(0)
number(title) == SubSeq(title, 1, NumberingEnd(title, 1) - 1)

RECURSIVE SplitDots(_, _, _)
SplitDots(s, p, cur) ==
    IF p > Len(s) THEN <<cur>>
    ELSE IF s[p] = DOT THEN <<cur>> \o SplitDots(s, p + 1, <<>>)
    ELSE SplitDots(s, p + 1, Append(cur, s[p]))

\* number.split('.')
Components(num) == SplitDots(num, 1, <<>>)

RECURSIVE IntOf(_)
\* int(digits)
IntOf(ds) == IF ds = <<>> THEN 0 ELSE 10 * IntOf(Front(ds)) + DigitVal(Last(ds))

\* list(map(int, self.number.split('.')))
numbering(title) ==
    LET c == Components(number(title)) IN [n \in 1..Len(c) |-> IntOf(c[n])]

RECURSIVE StripZeros(_)
\* packaging.version: the release with its trailing zeros dropped (the comparison key)
StripZeros(r) == IF r # <<>> /\ Last(r) = 0 THEN StripZeros(Front(r)) ELSE r

RECURSIVE TupleLt(_, _)
\* tuple comparison a < b
TupleLt(a, b) ==
    IF b = <<>> THEN FALSE
    ELSE IF a = <<>> THEN TRUE
    ELSE IF Head(a) # Head(b) THEN Head(a) < Head(b)
    ELSE TupleLt(Tail(a), Tail(b))

\* DottedSection.__eq__
Eq(a, b) == number(a) = number(b)
\* DottedSection.__lt__: Version(self.number) < Version(other.number)
Lt(a, b) == TupleLt(StripZeros(numbering(a)), StripZeros(numbering(b)))
\* functools.total_ordering, derived from __lt__ and __eq__
Gt(a, b) == ~Lt(a, b) /\ ~Eq(a, b)

\* DottedSection.is_child_of
is_child_of(self, other) ==
    /\ numbering(other) = Take(numbering(self), Len(numbering(other)))
    /\ ~Eq(self, other)

\* DottedSection.is_right_sibling_of
is_right_sibling_of(self, other) ==
    /\ Front(numbering(other)) = Front(numbering(self))
    /\ Last(numbering(other)) < Last(numbering(self))

(***************************************************************************)
(* DottedSection: the tree                                                 *)
(***************************************************************************)
None == 0

\* DottedSection.__init__: content None (<<>>, a set content c is <<c>>), no links
NewSection(title) ==
    [title |-> title, content |-> <<>>, children |-> <<>>,
     right_sibling |-> None, parent |-> None]

RECURSIVE search(_, _, _)
RECURSIVE SearchChildren(_, _, _)
\* DottedSection.search from node n: the node itself, its children in order, then its
\* right sibling; None when nothing carries that title
search(ns, n, title) ==
    IF ns[n].title = title THEN n
    ELSE LET r == SearchChildren(ns, ns[n].children, title)
         IN IF r # None THEN r
            ELSE IF ns[n].right_sibling # None
                 THEN search(ns, ns[n].right_sibling, title)
                 ELSE None

SearchChildren(ns, cs, title) ==
    IF cs = <<>> THEN None
    ELSE LET r == search(ns, Head(cs), title)
         IN IF r # None THEN r ELSE SearchChildren(ns, Tail(cs), title)

RECURSIVE Lineage(_, _)
\* the titles from the top of the parent chain down to node n
Lineage(ns, n) == IF n = None THEN <<>> ELSE Append(Lineage(ns, ns[n].parent), ns[n].title)

PartOneOfOne == <<"part", SP, "1/1">>

\* DottedSection.get_contextualised_content
get_contextualised_content(ns, n) ==
    <<"In", SP, "section:", SP>> \o JoinWith(Lineage(ns, n), <<SP, "->", SP>>)
        \o <<",", SP>> \o PartOneOfOne \o <<":", NL>> \o ns[n].content[1]

(***************************************************************************)
(* SectionedDocumentParser: extract, validate, sort                        *)
(***************************************************************************)
FirstTitleWords == CapWords \cup UpperWords
FollowingTitleWords == CapWords \cup UpperWords \cup StopWords

\* ^ under re.MULTILINE
AtLineStart(s, p) == p = 1 \/ s[p - 1] = NL
\* $ under re.MULTILINE
AtLineEnd(s, p) == p = Len(s) + 1 \/ s[p] = NL

RECURSIVE SkipWhitespace(_, _)
SkipWhitespace(s, p) ==
    IF p <= Len(s) /\ s[p] \in Whitespace THEN SkipWhitespace(s, p + 1) ELSE p

RECURSIVE TitleEnd(_, _)
\* following_title_words_regex then $, from the position p after a word: the longest run
\* of (blank, word) pairs that ends at a line end; 0 when no run does
TitleEnd(s, p) ==
    LET more == IF p + 1 <= Len(s) /\ s[p] \in Whitespace /\ s[p + 1] \in FollowingTitleWords
                THEN TitleEnd(s, p + 2)
                ELSE 0
    IN IF more # 0 THEN more ELSE IF AtLineEnd(s, p) THEN p ELSE 0

\* section_regex tried at position p: <<first position of the group, position after
\* the match>>, <<0, 0>> when it does not match
MatchSection(s, p) ==
    LET i == SkipWhitespace(s, p)
        j == NumberingEnd(s, i)
        e == TitleEnd(s, j + 2)
    IN IF /\ AtLineStart(s, p)
          /\ p <= Len(s) /\ s[p] \in Whitespace
          /\ i <= Len(s) /\ IsDigit(s[i])
          /\ j + 1 <= Len(s) /\ s[j] \in Whitespace /\ s[j + 1] \in FirstTitleWords
          /\ e # 0
       THEN <<i, e>>
       ELSE <<0, 0>>

RECURSIVE FindAllSections(_, _)
\* re.findall(section_regex, text, re.MULTILINE) from position p on, group 1 of each match
FindAllSections(s, p) ==
    IF p > Len(s) THEN <<>>
    ELSE LET m == MatchSection(s, p)
         IN IF m[1] # 0
            THEN <<SubSeq(s, m[1], m[2] - 1)>> \o FindAllSections(s, m[2])
            ELSE FindAllSections(s, p + 1)

\* SectionedDocumentParser.extract_sections (the list; empty raises NoSectionsFound)
extract_sections(s) == FindAllSections(s, 1)

\* str.isupper: no lower-case letter and at least one upper-case letter
isupper(s) ==
    /\ \E p \in 1..Len(s) : s[p] \in CapWords \cup UpperWords
    /\ \A p \in 1..Len(s) : s[p] \notin CapWords \cup StopWords \cup BodyWords

\* mutant: a component may have one digit only (len(_) < 2)
numbers_are_valid_OneDigit(section) ==
    LET numbers == Components(number(section))
    IN \A n \in 1..Len(numbers) : Len(numbers[n]) < 2

\* numbers_are_valid in validate_extracted_sections
numbers_are_valid(section) ==
    LET numbers == Components(number(section))
    IN \A n \in 1..Len(numbers) : Len(numbers[n]) <= 2

NotUpper(section) == ~isupper(section)

\* SectionedDocumentParser.validate_extracted_sections (the list; empty raises NoSectionsFound)
validate_extracted_sections(sections) ==
    SelectSeq(SelectSeq(sections, NotUpper), numbers_are_valid)

RECURSIVE InsertSorted(_, _)
\* x put behind every element it is not less than
InsertSorted(sorted, x) ==
    IF sorted # <<>> /\ Lt(x, Last(sorted))
    THEN Append(InsertSorted(Front(sorted), x), Last(sorted))
    ELSE Append(sorted, x)

RECURSIVE SortTitles(_)
\* sorted(valid_titles, key=lambda x: DottedSection(x)): stable, by __lt__ alone
SortTitles(ts) == IF ts = <<>> THEN <<>> ELSE InsertSorted(SortTitles(Front(ts)), Last(ts))

(***************************************************************************)
(* SectionedDocumentParser.build_section_tree, one title of the loop       *)
(***************************************************************************)
\* current_section.children.append(new_section); new_section.parent = current_section
AttachChild(ns, cur, new) ==
    [ns EXCEPT ![cur].children = Append(@, new), ![new].parent = cur]

\* current_section.right_sibling = new_section; new_section.parent = current_section.parent
AttachRightSibling(ns, cur, new) ==
    [ns EXCEPT ![cur].right_sibling = new, ![new].parent = ns[cur].parent]

RECURSIVE Backtrack(_, _, _)
\* while not (new_section.is_child_of(current_section) or current_section.parent is None)
Backtrack(ns, cur, title) ==
    IF ~(is_child_of(title, ns[cur].title) \/ ns[cur].parent = None)
    THEN Backtrack(ns, ns[cur].parent, title)
    ELSE cur

\* mutant: the cursor a discarded title leaves behind is the one it found
CursorAfterDiscard_Unchanged(ns, cur, title) == cur

\* the cursor a discarded title leaves behind
CursorAfterDiscard(ns, cur, title) == Backtrack(ns, cur, title)

\* the body of the loop for one title: the nodes, the cursor, whether it was discarded
PlaceSection(ns0, cur, title) ==
    LET new == Len(ns0) + 1
        ns == Append(ns0, NewSection(title))
        up == Backtrack(ns, cur, title)
    IN IF is_child_of(title, ns[cur].title)
       THEN [nodes |-> AttachChild(ns, cur, new), cursor |-> new, discard |-> FALSE]
       ELSE IF is_right_sibling_of(title, ns[cur].title)
       THEN [nodes |-> AttachRightSibling(ns, cur, new), cursor |-> new, discard |-> FALSE]
       ELSE IF is_child_of(title, ns[up].title)
       THEN [nodes |-> AttachChild(ns, up, new), cursor |-> new, discard |-> FALSE]
       ELSE IF is_right_sibling_of(title, ns[up].title)
       THEN [nodes |-> AttachRightSibling(ns, up, new), cursor |-> new, discard |-> FALSE]
       ELSE [nodes |-> ns, cursor |-> CursorAfterDiscard(ns, cur, title), discard |-> TRUE]

(***************************************************************************)
(* SectionedDocumentParser.split: one chunk of the loop                    *)
(***************************************************************************)
\* lines[0] of chunk.split("\n")
section_lineage(chunk) == SplitLines(chunk)[1]
\* lines[1:]
content_lines(chunk) == Tail(SplitLines(chunk))
lineage_length(chunk) == word_count(section_lineage(chunk))
\* mutant: one word too many
adjusted_max_length_OffByOne(chunk, max) == max - lineage_length(chunk) + 1
adjusted_max_length(chunk, max) == max - lineage_length(chunk)

\* any([self.word_count(line) > adjusted_max_length for line in lines])
LineTooLong(chunk, max) ==
    \E n \in 1..Len(content_lines(chunk)) :
        word_count(content_lines(chunk)[n]) > adjusted_max_length(chunk, max)

RECURSIVE FillChunk_NoCount(_, _, _, _)
\* mutant: current_len is never added to
FillChunk_NoCount(lines, adj, current_chunk, current_len) ==
    IF lines # <<>> /\ current_len + word_count(Head(lines)) <= adj
    THEN FillChunk_NoCount(Tail(lines), adj, current_chunk \o Head(lines) \o <<NL>>,
                           current_len)
    ELSE <<current_chunk, lines>>

\* mutant: a sub-chunk is closed after its first line
FillChunk_OneLine(lines, adj, current_chunk, current_len) ==
    IF lines # <<>> /\ current_len + word_count(Head(lines)) <= adj
    THEN <<current_chunk \o Head(lines) \o <<NL>>, Tail(lines)>>
    ELSE <<current_chunk, lines>>

RECURSIVE FillChunk(_, _, _, _)
\* the inner while: <<current_chunk, the lines left>>
FillChunk(lines, adj, current_chunk, current_len) ==
    IF lines # <<>> /\ current_len + word_count(Head(lines)) <= adj
    THEN FillChunk(Tail(lines), adj, current_chunk \o Head(lines) \o <<NL>>,
                   current_len + word_count(Head(lines)))
    ELSE <<current_chunk, lines>>

RECURSIVE PackLines(_, _)
\* the outer while: sub_chunks
PackLines(lines, adj) ==
    IF lines = <<>> THEN <<>>
    ELSE LET f == FillChunk(lines, adj, <<>>, 0)
         IN <<f[1]>> \o PackLines(f[2], adj)

\* f"part {k + 1}/{len(sub_chunks)}" for the sub-chunk numbered part (from 1) of total
PartOf(part, total) == <<"part", SP, NumStr(part) \o "/" \o NumStr(total)>>

\* updated_section_lineage + "\n" + sub_chunk
SubChunk(lineage, sub_chunks, part) ==
    Replace(lineage, PartOneOfOne, PartOf(part, Len(sub_chunks))) \o <<NL>> \o sub_chunks[part]

\* mutant: a chunk that fills the budget exactly is divided (< for <=)
SplitChunk_StrictBudget(chunk, max) ==
    IF word_count(chunk) < max THEN <<chunk>>
    ELSE LET sub_chunks == PackLines(content_lines(chunk), adjusted_max_length(chunk, max))
         IN [p \in 1..Len(sub_chunks) |-> SubChunk(section_lineage(chunk), sub_chunks, p)]

\* what one chunk adds to valid_chunks when no line is too long
SplitChunk(chunk, max) ==
    IF word_count(chunk) <= max THEN <<chunk>>
    ELSE LET sub_chunks == PackLines(content_lines(chunk), adjusted_max_length(chunk, max))
         IN [p \in 1..Len(sub_chunks) |-> SubChunk(section_lineage(chunk), sub_chunks, p)]

\* whether split raises ValueError at this chunk
RaisesLineTooLong(chunk, max) == word_count(chunk) > max /\ LineTooLong(chunk, max)

(***************************************************************************)
(* The documents and parameters the model runs on                          *)
(***************************************************************************)
MaxTitles == 3          \* title lines in a document of headings
MaxBody == 3            \* body lines of the section in a document with a body
MaxChunkLength == 12    \* largest max_chunk_length
MaxTreeTitles == 4      \* title lines in a document of nested headings

ChunkLengths == {MaxChunkLength - 6, MaxChunkLength - 3, MaxChunkLength}

N1 == <<"1">>
N2 == <<"2">>
N01 == <<"0", "1">>
N100 == <<"1", "0", "0">>
N1_0 == <<"1", DOT, "0">>
N1_1 == <<"1", DOT, "1">>
N1_2 == <<"1", DOT, "2">>
N1_9 == <<"1", DOT, "9">>
N1_10 == <<"1", DOT, "1", "0">>
N2_1 == <<"2", DOT, "1">>
N1_1_1 == <<"1", DOT, "1", DOT, "1">>

\* a title: the numbering, a blank, one word
Title(num, word) == num \o <<SP, word>>
\* a heading line: indented, as section_regex asks
Heading(num, word) == <<SP>> \o Title(num, word)

HeadingPool ==
    {Heading(n, "Aa") : n \in {N1, N2, N01, N100, N1_0, N1_1, N2_1, N1_1_1}}
        \cup {Heading(N2, "AA")}

\* body lines: one, three and four words, an empty line, a line of one capitalised word
BodyPool ==
    {<<SP, "x">>, <<SP, "x", SP, "x", SP, "x">>, <<SP, "x", SP, "x", SP, "x", SP, "x">>,
     <<>>, <<"Bb">>}

SeqsUpTo(S, n) == UNION {[1..m -> S] : m \in 0..n}

\* the lines, each ended by a line break
Document(lines) == Flatten([n \in 1..Len(lines) |-> lines[n] \o <<NL>>])

HeadingDocuments == {Document(ls) : ls \in SeqsUpTo(HeadingPool, MaxTitles)}
\* a section with a body, alone or behind a section without one, and a closing heading
BodyDocuments ==
    {Document(first \o ls \o <<Heading(N2, "Aa")>>) :
        first \in {<<Heading(N1, "Aa")>>, <<Heading(N1, "Aa"), Heading(N1_1, "Aa")>>},
        ls \in SeqsUpTo(BodyPool, MaxBody)}
Documents == HeadingDocuments \cup BodyDocuments

\* nested headings in any order of appearance; a heading may stand twice in a document
\* of fewer than MaxTreeTitles lines
TreePool == {Heading(n, "Aa") : n \in {N1, N1_1, N1_1_1, N1_2, N2}}
TreeDocuments ==
    {Document(ls) : ls \in {t \in SeqsUpTo(TreePool, MaxTreeTitles) :
                                \/ Len(t) < MaxTreeTitles
                                \/ \A i, j \in 1..Len(t) : i # j => t[i] # t[j]}}

ComparedTitles ==
    {Title(n, "Aa") : n \in {N1, N2, N01, N100, N1_0, N1_1, N1_2, N1_9, N1_10, N2_1, N1_1_1}}

NoComparison == [a |-> <<>>, b |-> <<>>, lt |-> FALSE, eq |-> FALSE, gt |-> FALSE]

(***************************************************************************)
(* The state machine of parser.split(text)                                 *)
(***************************************************************************)
Init ==
    /\ pc = "new"
    /\ max_chunk_length \in ChunkLengths
    /\ text = <<>>
    /\ section_titles = <<>>
    /\ valid_titles = <<>>
    /\ sorted_titles = <<>>
    /\ nodes = <<>>
    /\ current_section = None
    /\ discarded = {}
    /\ k = 0
    /\ chunks = <<>>
    /\ valid_chunks = <<>>
    /\ origin = <<>>
    /\ err = ""
    /\ result = <<>>
    /\ cmp = NoComparison

Raise(exception) == pc' = "raised" /\ err' = exception

\* split -> enrich_section_chunks -> extract_sections, on a document of docs
ExtractFrom(docs) ==
    /\ pc = "new"
    /\ \E doc \in docs :
        /\ text' = doc
        /\ section_titles' = extract_sections(doc)
    /\ IF section_titles' = <<>> THEN Raise("NoSectionsFound")
       ELSE pc' = "validate" /\ err' = err
    /\ UNCHANGED <<max_chunk_length, valid_titles, sorted_titles, nodes, current_section,
                   discarded, k, chunks, valid_chunks, origin, result, cmp>>

ExtractSections == ExtractFrom(Documents)

\* enrich_section_chunks: validate_extracted_sections
ValidateSections ==
    /\ pc = "validate"
    /\ valid_titles' = validate_extracted_sections(section_titles)
    /\ IF valid_titles' = <<>> THEN Raise("NoSectionsFound")
       ELSE pc' = "sort" /\ err' = err
    /\ UNCHANGED <<max_chunk_length, text, section_titles, sorted_titles, nodes,
                   current_section, discarded, k, chunks, valid_chunks, origin, result, cmp>>

\* enrich_section_chunks: sorted(...), then build_section_tree up to its loop
SortSections ==
    /\ pc = "sort"
    /\ sorted_titles' = SortTitles(valid_titles)
    /\ nodes' = <<NewSection(sorted_titles'[1])>>
    /\ current_section' = 1
    /\ k' = 1
    /\ pc' = IF Len(sorted_titles') > 1 THEN "build" ELSE "collect"
    /\ UNCHANGED <<max_chunk_length, text, section_titles, valid_titles, discarded,
                   chunks, valid_chunks, origin, err, result, cmp>>

\* build_section_tree: one title of the loop
BuildStep ==
    /\ pc = "build"
    /\ LET placed == PlaceSection(nodes, current_section, sorted_titles[Len(nodes) + 1])
       IN /\ nodes' = placed.nodes
          /\ current_section' = placed.cursor
          /\ discarded' = IF placed.discard THEN discarded \cup {Len(nodes) + 1} ELSE discarded
    /\ pc' = IF Len(nodes') < Len(sorted_titles) THEN "build" ELSE "assign"
    /\ k' = 1
    /\ UNCHANGED <<max_chunk_length, text, section_titles, valid_titles, sorted_titles,
                   chunks, valid_chunks, origin, err, result, cmp>>

\* enrich_section_chunks: one pair of the zip loop
AssignContent ==
    /\ pc = "assign"
    /\ LET current_section_start == Find(text, sorted_titles[k])
           next_section_start == Find(text, sorted_titles[k + 1])
           chunk == Slice(text, current_section_start, next_section_start)
           chunk_node == search(nodes, 1, sorted_titles[k])
       IN IF chunk_node = None
          THEN Raise("AttributeError") /\ UNCHANGED <<nodes, k>>
          ELSE /\ nodes' = [nodes EXCEPT ![chunk_node].content = <<chunk>>]
               /\ k' = IF k + 1 < Len(sorted_titles) THEN k + 1 ELSE 1
               /\ pc' = IF k + 1 < Len(sorted_titles) THEN "assign" ELSE "collect"
               /\ err' = err
    /\ UNCHANGED <<max_chunk_length, text, section_titles, valid_titles, sorted_titles,
                   current_section, discarded, chunks, valid_chunks, origin, result, cmp>>

\* enrich_section_chunks: one title of the loop that collects the chunks
CollectChunk ==
    /\ pc = "collect"
    /\ LET node == search(nodes, 1, sorted_titles[k])
       IN IF node = None
          THEN Raise("AttributeError") /\ UNCHANGED <<chunks, k>>
          ELSE /\ chunks' = IF nodes[node].content # <<>>
                            THEN Append(chunks, get_contextualised_content(nodes, node))
                            ELSE chunks
               /\ k' = IF k < Len(sorted_titles) THEN k + 1 ELSE 1
               /\ pc' = IF k < Len(sorted_titles) THEN "collect"
                        ELSE IF chunks' = <<>> THEN "return" ELSE "split"
               /\ err' = err
    /\ UNCHANGED <<max_chunk_length, text, section_titles, valid_titles, sorted_titles,
                   nodes, current_section, discarded, valid_chunks, origin, result, cmp>>

\* split: one chunk of the loop
SplitStep ==
    /\ pc = "split"
    /\ IF RaisesLineTooLong(chunks[k], max_chunk_length)
       THEN Raise("ValueError") /\ UNCHANGED <<valid_chunks, origin, k>>
       ELSE LET out == SplitChunk(chunks[k], max_chunk_length)
            IN /\ valid_chunks' = valid_chunks \o out
               /\ origin' = origin \o [p \in 1..Len(out) |-> k]
               /\ k' = IF k < Len(chunks) THEN k + 1 ELSE k
               /\ pc' = IF k < Len(chunks) THEN "split" ELSE "return"
               /\ err' = err
    /\ UNCHANGED <<max_chunk_length, text, section_titles, valid_titles, sorted_titles,
                   nodes, current_section, discarded, chunks, result, cmp>>

\* split: return valid_chunks
Return ==
    /\ pc = "return"
    /\ result' = <<valid_chunks>>
    /\ pc' = "done"
    /\ UNCHANGED <<max_chunk_length, text, section_titles, valid_titles, sorted_titles,
                   nodes, current_section, discarded, k, chunks, valid_chunks, origin,
                   err, cmp>>

Next ==
    \/ ExtractSections
    \/ ValidateSections
    \/ SortSections
    \/ BuildStep
    \/ AssignContent
    \/ CollectChunk
    \/ SplitStep
    \/ Return

Spec == Init /\ [][Next]_vars

(***************************************************************************)
(* parser.split(text) on documents of nested headings                      *)
(***************************************************************************)
InitTree == Init /\ max_chunk_length = MaxChunkLength

ExtractTreeSections == ExtractFrom(TreeDocuments)

NextTree ==
    \/ ExtractTreeSections
    \/ ValidateSections
    \/ SortSections
    \/ BuildStep
    \/ AssignContent
    \/ CollectChunk
    \/ SplitStep
    \/ Return

SpecTree == InitTree /\ [][NextTree]_vars

(***************************************************************************)
(* Comparing two DottedSection objects                                     *)
(***************************************************************************)
InitCompare == Init /\ max_chunk_length = MaxChunkLength

\* a < b, a == b, a > b for two sections
Compare ==
    /\ \E a \in ComparedTitles, b \in ComparedTitles :
        cmp' = [a |-> a, b |-> b, lt |-> Lt(a, b), eq |-> Eq(a, b), gt |-> Gt(a, b)]
    /\ UNCHANGED <<pc, max_chunk_length, text, section_titles, valid_titles, sorted_titles,
                   nodes, current_section, discarded, k, chunks, valid_chunks, origin,
                   err, result>>

NextCompare == Compare

SpecCompare == InitCompare /\ [][NextCompare]_vars

(***************************************************************************)
(* Notions the claims are stated in                                        *)
(***************************************************************************)
\* the elements of valid_chunks made from chunk c, in order
OutputsOf(c) ==
    LET at == {n \in 1..Len(origin) : origin[n] = c}
    IN [j \in 1..Cardinality(at) |->
           valid_chunks[CHOOSE n \in at : Cardinality({m \in at : m < n}) = j - 1]]

\* the chunks split has dealt with so far
Processed == {origin[n] : n \in 1..Len(origin)}

\* a header line "In section: <lineage>, part <part>/<total>:"
Header(lineage, part, total) ==
    <<"In", SP, "section:", SP>> \o JoinWith(lineage, <<SP, "->", SP>>)
        \o <<",", SP, "part", SP, NumStr(part) \o "/" \o NumStr(total), ":">>

\* the lines of a text, each ended by a line break, one after the other
EndedLines(s) == LET ls == SplitLines(s) IN Flatten([n \in 1..Len(ls) |-> ls[n] \o <<NL>>])

\* C1: a document with a discarded (orphan) title still parses: enrich_section_chunks
\* does not raise because of it, and the chunks are those of the placed sections only,
\* none for a discarded title.  (ValueError is split's own error for a long line.)
C1_OrphanDiscardIsNotAnError ==
    discarded # {} =>
        /\ pc = "raised" => err = "ValueError"
        /\ pc = "done" => Len(chunks) <= Len(nodes) - Cardinality(discarded)

\* C2: every chunk split has produced, header line included, has at most
\* max_chunk_length words; so has every chunk of the list it returns.
C2_ChunksWithinBudget ==
    /\ \A n \in 1..Len(valid_chunks) : word_count(valid_chunks[n]) <= max_chunk_length
    /\ result # <<>> =>
          \A n \in 1..Len(result[1]) : word_count(result[1][n]) <= max_chunk_length

\* C2 witness: split returned a list in which a section was divided and one of its
\* sub-chunks uses the whole budget
C2_Witness ==
    /\ pc = "done"
    /\ \E c \in Processed : Len(OutputsOf(c)) > 1
    /\ \E n \in 1..Len(result[1]) :
          word_count(result[1][n]) = max_chunk_length /\ Len(OutputsOf(origin[n])) > 1

\* the body of a sub-chunk: what follows its header line and the line break
BodyAfter(chunk, header) == SubSeq(chunk, Len(header) + 2, Len(chunk))

\* C3: a section divided into n sub-chunks gives them in order, sub-chunk j under the
\* section's header rewritten to "part j/n", each made of whole lines, and the bodies
\* one after the other are the section's lines, unchanged and in order.
C3_SubChunksRebuildSection ==
    \A c \in Processed :
        word_count(chunks[c]) > max_chunk_length =>
            \E node \in 1..Len(nodes) :
                /\ nodes[node].content # <<>>
                /\ chunks[c] = get_contextualised_content(nodes, node)
                /\ LET outs == OutputsOf(c)
                       total == Len(outs)
                       head(j) == Header(Lineage(nodes, node), j, total)
                       body(j) == BodyAfter(outs[j], head(j))
                   IN /\ \A j \in 1..total :
                             /\ OccursAt(outs[j], head(j) \o <<NL>>, 1)
                             /\ body(j) # <<>> /\ Last(body(j)) = NL
                      /\ Flatten([j \in 1..total |-> body(j)])
                             = EndedLines(nodes[node].content[1])

\* C4: a chunk whose annotated text has at most max_chunk_length words gives exactly
\* one output, the annotated text itself.
C4_UnderBudgetUnchanged ==
    \A c \in Processed :
        word_count(chunks[c]) <= max_chunk_length => OutputsOf(c) = <<chunks[c]>>

\* C4 witness: split returned, having met a chunk that fills the budget exactly
C4_Witness ==
    /\ pc = "done"
    /\ \E c \in Processed : word_count(chunks[c]) = max_chunk_length

\* the condition of C5 on a chunk: oversized, and the budget left by its header line is
\* not positive or smaller than some body line
LineTooLongFor(chunk) ==
    LET lines == SplitLines(chunk)
        budget == max_chunk_length - word_count(lines[1])
    IN /\ word_count(chunk) > max_chunk_length
       /\ \/ budget <= 0
          \/ \E n \in 2..Len(lines) : word_count(lines[n]) > budget

\* C5: split never gets past a chunk with a line too long: it raises ValueError there
\* and returns nothing, whatever it had split before.
C5_LineTooLongFails ==
    /\ \A c \in Processed : ~LineTooLongFor(chunks[c])
    /\ pc \in {"return", "done"} => \A c \in 1..Len(chunks) : ~LineTooLongFor(chunks[c])
    /\ err = "ValueError" => pc = "raised" /\ result = <<>> /\ LineTooLongFor(chunks[k])
    /\ pc = "raised" => result = <<>>

\* C5 witness: ValueError after earlier chunks had been split, on a chunk whose header
\* leaves a positive budget
C5_Witness ==
    /\ err = "ValueError"
    /\ valid_chunks # <<>>
    /\ max_chunk_length - word_count(SplitLines(chunks[k])[1]) > 0

\* the content loop of enrich_section_chunks is over
ContentAssigned == pc \in {"collect", "split", "return", "done"} \/ err = "ValueError"

\* C6: once content is assigned, the node of the last sorted title has none and no
\* chunk is made for that title, and every other placed title's node has content.
C6_LastTitleHasNoContent ==
    (ContentAssigned /\ Len(nodes) = Len(sorted_titles)) =>
        LET last == Len(sorted_titles)
        IN /\ nodes[last].content = <<>>
           /\ \A c \in 1..Len(chunks) : \A n \in 1..Len(nodes) :
                 (nodes[n].title = sorted_titles[last] /\ nodes[n].content # <<>>)
                     => chunks[c] # get_contextualised_content(nodes, n)
           /\ \A n \in 1..(last - 1) : n \notin discarded => nodes[n].content # <<>>

\* C7: a node with a parent has the parent's numbering plus exactly one component.
C7_ChildOneLevelBelowParent ==
    \A n \in 1..Len(nodes) :
        nodes[n].parent # None =>
            Front(numbering(nodes[n].title)) = numbering(nodes[nodes[n].parent].title)

\* C8: a < b, a == b and a > b follow the integer sequences component by component:
\* equal exactly when the sequences are equal, exactly one of the three holds, and
\* a > b exactly when b < a.
C8_ComparisonIsNumeric ==
    cmp.a # <<>> =>
        /\ cmp.eq <=> numbering(cmp.a) = numbering(cmp.b)
        /\ cmp.lt <=> TupleLt(numbering(cmp.a), numbering(cmp.b))
        /\ cmp.gt <=> TupleLt(numbering(cmp.b), numbering(cmp.a))
        /\ Cardinality({x \in {"lt", "eq", "gt"} : cmp[x]}) = 1

\* a title of C9's kind: not all in upper case, no component of three digits or more
WrittenInUpperCase(title) ==
    \A p \in 1..Len(title) :
        (title[p] \notin Whitespace /\ title[p] # DOT /\ ~IsDigit(title[p]))
            => title[p] \in UpperWords
HasLongComponent(title) ==
    \E p \in 1..(Len(title) - 2) :
        IsDigit(title[p]) /\ IsDigit(title[p + 1]) /\ IsDigit(title[p + 2])
Kept == {n \in 1..Len(section_titles) :
            ~WrittenInUpperCase(section_titles[n]) /\ ~HasLongComponent(section_titles[n])}

Validated == section_titles # <<>> /\ pc \notin {"new", "validate"}

\* C9: validate_extracted_sections keeps, in their order, exactly the titles that are
\* not all upper case and have no component of more than two digits, and raises
\* NoSectionsFound exactly when none is kept.
C9_ValidateKeepsValidTitles ==
    Validated =>
        /\ Len(valid_titles) = Cardinality(Kept)
        /\ \A n \in Kept :
              valid_titles[Cardinality({m \in Kept : m <= n})] = section_titles[n]
        /\ (pc = "raised" /\ err = "NoSectionsFound") <=> Kept = {}

\* C9 witness: three titles extracted, one kept, one dropped of each kind
C9_Witness ==
    /\ pc = "sort"
    /\ Len(section_titles) = 3 /\ Len(valid_titles) = 1
    /\ \E n \in 1..3 : WrittenInUpperCase(section_titles[n])
    /\ \E n \in 1..3 : HasLongComponent(section_titles[n])

RECURSIVE Top(_, _)
\* the node at the top of n's parent chain
Top(ns, n) == IF ns[n].parent = None THEN n ELSE Top(ns, ns[n].parent)

\* a step of build_section_tree that discards its title
DiscardStep == pc = "build" /\ discarded' # discarded

\* no node built before the step changes; the new node is left unlinked
LinksUnchanged ==
    /\ \A n \in 1..Len(nodes) : nodes'[n] = nodes[n]
    /\ nodes'[Len(nodes')] = NewSection(sorted_titles[Len(nodes')])

\* C10 as claimed: a discarded title leaves the cursor and every link as they were.
C10_DiscardKeepsCursor ==
    [][DiscardStep => (current_section' = current_section /\ LinksUnchanged)]_vars

\* C10 amended: a discarded title leaves the cursor on the top of the old cursor's
\* parent chain, and every link as it was.
C10_DiscardMovesCursorToTop ==
    [][DiscardStep => (current_section' = Top(nodes, current_section) /\ LinksUnchanged)]_vars

\* C10 witness: the last title was discarded while the cursor was on a node with a
\* parent, and the cursor is now that node's top ancestor
C10_Witness ==
    /\ Len(nodes) >= 3
    /\ Len(nodes) \in discarded
    /\ (Len(nodes) - 1) \notin discarded
    /\ nodes[Len(nodes) - 1].parent # None
    /\ current_section = Top(nodes, Len(nodes) - 1)
    /\ current_section # Len(nodes) - 1

(***************************************************************************)
(* The sub-chunks of a divided section                                     *)
(***************************************************************************)
\* the header line of a chunk: what stands before its first line break
HeaderLine(chunk) == SubSeq(chunk, 1, Find(chunk, <<NL>>))

\* the body of a chunk: what stands behind its first line break
BodyOf(chunk) == SubSeq(chunk, Find(chunk, <<NL>>) + 2, Len(chunk))

\* the body lines of a sub-chunk, each of which a line break ends
BodyLinesOf(chunk) == Front(SplitLines(BodyOf(chunk)))

\* the words a chunk's header line leaves to the body of a sub-chunk
AdjustedMax(chunk) == max_chunk_length - word_count(HeaderLine(chunk))

\* the chunks split has divided so far
Divided == {c \in Processed : word_count(chunks[c]) > max_chunk_length}

\* C12: the sub-chunks of a divided section are packed greedily: every sub-chunk has
\* at least one body line, and of two consecutive sub-chunks the body of the earlier
\* has at most adjusted_max words and would have more with the first line of the later.
C12_GreedyPacking ==
    \A c \in Divided :
        LET outs == OutputsOf(c)
            adj == AdjustedMax(chunks[c])
        IN /\ \A j \in 1..Len(outs) : BodyLinesOf(outs[j]) # <<>>
           /\ \A j \in 1..(Len(outs) - 1) :
                 /\ word_count(BodyOf(outs[j])) <= adj
                 /\ word_count(BodyOf(outs[j])) + word_count(BodyLinesOf(outs[j + 1])[1]) > adj

\* C12 witness: split returned, having divided a section into three sub-chunks or more,
\* one of them of several lines that leave room which the next line does not fit in,
\* one of them filled to the last word
C12_Witness ==
    /\ pc = "done"
    /\ \E c \in Divided :
          LET outs == OutputsOf(c)
              adj == AdjustedMax(chunks[c])
          IN /\ Len(outs) >= 3
             /\ \E j \in 1..(Len(outs) - 1) :
                   /\ Len(BodyLinesOf(outs[j])) >= 2
                   /\ word_count(BodyOf(outs[j])) < adj
             /\ \E j \in 1..(Len(outs) - 1) : word_count(BodyOf(outs[j])) = adj

(***************************************************************************)
(* The tree build_section_tree returns                                     *)
(***************************************************************************)
\* build_section_tree has returned
TreeBuilt == nodes # <<>> /\ Len(nodes) = Len(sorted_titles)

\* the nodes attached to the tree (the first title's node and every node not discarded)
Placed == {n \in 1..Len(nodes) : n \notin discarded}

\* the placed nodes after n that share all but the last component with n and have a
\* greater last component
FollowingSiblings(n) ==
    {m \in Placed :
        /\ m > n
        /\ Front(numbering(nodes[m].title)) = Front(numbering(nodes[n].title))
        /\ Last(numbering(nodes[m].title)) > Last(numbering(nodes[n].title))}

\* the first of them, None when there is none
NextSibling(n) ==
    IF FollowingSiblings(n) = {} THEN None
    ELSE CHOOSE m \in FollowingSiblings(n) : \A o \in FollowingSiblings(n) : m <= o

\* C11: in the tree build_section_tree returns, the right_sibling of every placed node
\* is the next placed node of the same depth that shares all but the last identifier
\* component with it and has a greater last component, and is unset when there is none.
C11_RightSiblingIsNextSibling ==
    TreeBuilt => \A n \in Placed : nodes[n].right_sibling = NextSibling(n)

\* C13: no two nodes attached to the tree carry the same dotted identifier (a title
\* whose identifier a placed node already has is not attached again, at any depth), and
\* the chunks enrich_section_chunks hands to split hold no chunk twice.
C13_NoDuplicateIdentifiers ==
    /\ \A m, n \in Placed :
          m # n => number(nodes[m].title) # number(nodes[n].title)
    /\ pc = "done" => \A i, j \in 1..Len(chunks) : i # j => chunks[i] # chunks[j]

====
